---- MODULE Spec2Model ----
(***************************************************************************)
(* PureCheck.py: an image and two exemplar images are encoded as data      *)
(* URLs, sent to a chat-completions endpoint in a fixed four-message       *)
(* prompt, and the reply is searched for a fenced code block, normalised   *)
(* and parsed as JSON.                                                     *)
(*                                                                         *)
(* A Python str is a sequence of one-character strings, a bytes object a   *)
(* sequence of integers 0..255.                                            *)
(***************************************************************************)
EXTENDS Integers, Sequences, FiniteSets, TLC

VARIABLES
    pc,                       \* position in main(), or in a unit run of one function
    arg, ret, ret2,           \* unit runs: the argument, the result, the result of a second application
    files,                    \* the file system: path -> bytes, or Unreadable
    data_url,                 \* main: local variables (lines 141-143)
    clean_image_url_example,
    dirty_image_url_example,
    request,                  \* the keyword arguments of the last chat.completions.create call
    calls,                    \* number of remote calls made
    response,                 \* main: response (line 163)
    content,                  \* main: content (line 174)
    analysis_result,          \* main: analysis_result (line 175)
    output,                   \* what print() has written, one entry per print call
    exc                       \* the exception that ended the run, "" if none

unitvars == <<arg, ret, ret2>>
mainvars == <<files, data_url, clean_image_url_example, dirty_image_url_example,
              request, calls, response, content, analysis_result, output, exc>>
vars == <<pc, arg, ret, ret2, files, data_url, clean_image_url_example,
          dirty_image_url_example, request, calls, response, content,
          analysis_result, output, exc>>

-----------------------------------------------------------------------------
(* Bounds of the model *)

MaxPieces == 6      \* unit runs of extract_code: texts of at most this many pieces
MaxBytes == 4       \* unit runs of local_image_to_data_url: files of at most this many bytes
MaxChoices == 2     \* main: responses with at most this many candidate completions

-----------------------------------------------------------------------------
(* Python values *)

None == <<"<None>">>                       \* Python's None where a str is expected
NoValue == [t |-> "unset", v |-> <<>>]     \* a variable not yet bound to a parsed value
Unreadable == <<-1>>                       \* a path open() fails on

Max(S) == CHOOSE x \in S : \A y \in S : y <= x
Min(S) == CHOOSE x \in S : \A y \in S : x <= y

Digits == {"0", "1", "2", "3", "4", "5", "6", "7", "8", "9"}
Lower == {"a", "b", "c", "d", "e", "f", "g", "h", "i", "j", "k", "l", "m",
          "n", "o", "p", "q", "r", "s", "t", "u", "v", "w", "x", "y", "z"}
Upper == {"A", "B", "C", "D", "E", "F", "G", "H", "I", "J", "K", "L", "M",
          "N", "O", "P", "Q", "R", "S", "T", "U", "V", "W", "X", "Y", "Z"}

\* The backtick character. A string of the module cannot hold it, so this
\* atom stands for it; it is in none of the character classes below.
Backtick == "<backtick>"

\* [A-Za-z0-9] of the pattern
Alnum == Digits \cup Lower \cup Upper

\* \s of the pattern and the characters str.strip() removes
Space == {" ", "\t", "\n", "\r", "\f"}

-----------------------------------------------------------------------------
(* extract_code *)

\* the literal triple backtick of the pattern at position i
IsFenceAt(s, i) ==
    /\ i >= 1
    /\ i + 2 <= Len(s)
    /\ s[i] = Backtick /\ s[i + 1] = Backtick /\ s[i + 2] = Backtick

\* A match of  FENCE(?:[A-Za-z0-9]*)\s*\n(.*?)FENCE  (DOTALL), FENCE being
\* three backticks, starting at i:
\* <<from, to>>, the span of group 1, or <<>> when the pattern does not match
\* there. k characters go to [A-Za-z0-9]* and m to \s*, both greedy (the
\* backtracking engine tries the largest first), then one newline; group 1 is
\* lazy and ends before the first FENCE that follows.
pattern_match(s, i) ==
    LET n == Len(s)
        j == i + 3
        Ks == {k \in 0..(n + 1 - j) : \A x \in j..(j + k - 1) : s[x] \in Alnum}
        Ms(k) == {m \in 0..(n + 1 - j - k) :
                     \A x \in (j + k)..(j + k + m - 1) : s[x] \in Space}
        Ps(g) == {p \in g..n : IsFenceAt(s, p)}
        Ok(k, m) == /\ j + k + m <= n
                    /\ s[j + k + m] = "\n"
                    /\ Ps(j + k + m + 1) # {}
        GoodK == {k \in Ks : \E m \in Ms(k) : Ok(k, m)}
    IN  IF ~IsFenceAt(s, i) \/ GoodK = {}
        THEN <<>>
        ELSE LET k == Max(GoodK)
                 m == Max({x \in Ms(k) : Ok(k, x)})
                 g == j + k + m + 1
             IN  <<g, Min(Ps(g)) - 1>>

\* re.search(pattern, content, re.DOTALL): the leftmost match, <<>> if none
re_search(s) ==
    LET Starts == {i \in 1..Len(s) : pattern_match(s, i) # <<>>}
    IN  IF Starts = {} THEN <<>> ELSE pattern_match(s, Min(Starts))

\* str.lstrip() in the place of str.strip(): trailing whitespace is kept
strip_left(s) ==
    LET Keep == {i \in 1..Len(s) : s[i] \notin Space}
    IN  IF Keep = {} THEN <<>> ELSE SubSeq(s, Min(Keep), Len(s))

\* str.strip()
strip(s) ==
    LET Keep == {i \in 1..Len(s) : s[i] \notin Space}
    IN  IF Keep = {} THEN <<>> ELSE SubSeq(s, Min(Keep), Max(Keep))

\* the arguments of code.replace exchanged: every double quote becomes a single quote
replace_quotes_reversed(s) == [i \in 1..Len(s) |-> IF s[i] = "\"" THEN "'" ELSE s[i]]

\* code.replace: every single quote becomes a double quote
replace_quotes(s) == [i \in 1..Len(s) |-> IF s[i] = "'" THEN "\"" ELSE s[i]]

extract_code(text) ==
    LET match == re_search(text)
        code == IF match # <<>>
                THEN strip(SubSeq(text, match[1], match[2]))
                ELSE strip(text)
    IN  replace_quotes(code)

-----------------------------------------------------------------------------
(* json.loads *)

\* A parsed value is [t |-> its Python type, v |-> its content]: a dict's v is
\* the sequence of its <<key, value>> pairs in document order, a list's the
\* sequence of its items, a str's its characters, a number's or constant's its
\* lexeme.
Fail == [ok |-> FALSE, end |-> 0, val |-> NoValue]      \* JSONDecodeError
Got(e, type, v) == [ok |-> TRUE, end |-> e, val |-> [t |-> type, v |-> v]]

\* WHITESPACE of json.decoder
JsonWs == {" ", "\t", "\n", "\r"}

\* the control characters a strict string may not hold, of those a text of the model can hold
Control == {"\t", "\n", "\r", "\f"}

RECURSIVE SkipWs(_, _)
SkipWs(s, i) == IF i <= Len(s) /\ s[i] \in JsonWs THEN SkipWs(s, i + 1) ELSE i

RECURSIVE SkipDigits(_, _)
SkipDigits(s, i) == IF i <= Len(s) /\ s[i] \in Digits THEN SkipDigits(s, i + 1) ELSE i

StartsWith(s, i, w) ==
    /\ i + Len(w) - 1 <= Len(s)
    /\ SubSeq(s, i, i + Len(w) - 1) = w

HexDigits == Digits \cup {"a", "b", "c", "d", "e", "f", "A", "B", "C", "D", "E", "F"}

\* BACKSLASH of json.decoder; "<b>" stands for the backspace character
Unescape(c) ==
    CASE c = "b" -> "<b>"
      [] c = "f" -> "\f"
      [] c = "n" -> "\n"
      [] c = "r" -> "\r"
      [] c = "t" -> "\t"
      [] OTHER -> c

\* py_scanstring with strict=True, from the character after the opening
\* quote; acc is what has been decoded. A \uXXXX escape decodes to the atom
\* "<u>": the texts of the model hold no backslash.
RECURSIVE scanstring(_, _, _)
scanstring(s, i, acc) ==
    IF i > Len(s) THEN Fail
    ELSE IF s[i] = "\"" THEN Got(i + 1, "str", acc)
    ELSE IF s[i] \in Control THEN Fail
    ELSE IF s[i] # "\\" THEN scanstring(s, i + 1, Append(acc, s[i]))
    ELSE IF i + 1 > Len(s) THEN Fail
    ELSE IF s[i + 1] \in {"\"", "\\", "/", "b", "f", "n", "r", "t"}
         THEN scanstring(s, i + 2, Append(acc, Unescape(s[i + 1])))
    ELSE IF /\ s[i + 1] = "u"
            /\ i + 5 <= Len(s)
            /\ \A x \in (i + 2)..(i + 5) : s[x] \in HexDigits
         THEN scanstring(s, i + 6, Append(acc, "<u>"))
    ELSE Fail

\* NUMBER_RE.match(s, i):  (-?(?:0|[1-9]\d*))(\.\d+)?([eE][-+]?\d+)?
\* <<end of the integer part, end of the match>>, or <<>> when it does not match
match_number(s, i) ==
    LET Is(x, C) == x >= 1 /\ x <= Len(s) /\ s[x] \in C
        a == IF Is(i, {"-"}) THEN i + 1 ELSE i
        int == IF Is(a, {"0"}) THEN a + 1
               ELSE IF Is(a, Digits) THEN SkipDigits(s, a + 1)
               ELSE 0
        frac == IF Is(int, {"."}) /\ Is(int + 1, Digits)
                THEN SkipDigits(s, int + 1) ELSE int
        sign == IF Is(frac + 1, {"-", "+"}) THEN frac + 2 ELSE frac + 1
        exp == IF Is(frac, {"e", "E"}) /\ Is(sign, Digits)
               THEN SkipDigits(s, sign) ELSE frac
    IN  IF int = 0 THEN <<>> ELSE <<int, exp>>

Chars_null == <<"n", "u", "l", "l">>
Chars_true == <<"t", "r", "u", "e">>
Chars_false == <<"f", "a", "l", "s", "e">>
Chars_NaN == <<"N", "a", "N">>
Chars_Infinity == <<"I", "n", "f", "i", "n", "i", "t", "y">>
Chars_NegInfinity == <<"-">> \o Chars_Infinity

\* scan_once, JSONObject and JSONArray of json.scanner and json.decoder.
\* nan_ok: whether the constants NaN, Infinity and -Infinity are values, as
\* they are for json.loads called with its defaults.
RECURSIVE scan_once(_, _, _)
RECURSIVE object_items(_, _, _, _)
RECURSIVE array_items(_, _, _, _)

\* JSONObject's loop, i at the opening quote of the next key
object_items(s, i, nan_ok, acc) ==
    IF ~(i <= Len(s) /\ s[i] = "\"") THEN Fail
    ELSE LET key == scanstring(s, i + 1, <<>>)
             colon == SkipWs(s, key.end)
             value == scan_once(s, SkipWs(s, colon + 1), nan_ok)
             e == SkipWs(s, value.end)
             items == Append(acc, <<key.val.v, value.val>>)
         IN  IF ~key.ok THEN Fail
             ELSE IF ~(colon <= Len(s) /\ s[colon] = ":") THEN Fail
             ELSE IF ~value.ok THEN Fail
             ELSE IF e > Len(s) THEN Fail
             ELSE IF s[e] = "}" THEN Got(e + 1, "dict", items)
             ELSE IF s[e] = "," THEN object_items(s, SkipWs(s, e + 1), nan_ok, items)
             ELSE Fail

\* JSONObject, i after the opening brace
JSONObject(s, i, nan_ok) ==
    LET a == SkipWs(s, i)
    IN  IF a <= Len(s) /\ s[a] = "}"
        THEN Got(a + 1, "dict", <<>>)
        ELSE object_items(s, a, nan_ok, <<>>)

\* JSONArray's loop, i at the start of the next item
array_items(s, i, nan_ok, acc) ==
    LET value == scan_once(s, i, nan_ok)
        e == SkipWs(s, value.end)
        items == Append(acc, value.val)
    IN  IF ~value.ok THEN Fail
        ELSE IF e > Len(s) THEN Fail
        ELSE IF s[e] = "]" THEN Got(e + 1, "list", items)
        ELSE IF s[e] = "," THEN array_items(s, SkipWs(s, e + 1), nan_ok, items)
        ELSE Fail

\* JSONArray, i after the opening bracket
JSONArray(s, i, nan_ok) ==
    LET a == SkipWs(s, i)
    IN  IF a <= Len(s) /\ s[a] = "]"
        THEN Got(a + 1, "list", <<>>)
        ELSE array_items(s, a, nan_ok, <<>>)

scan_once(s, i, nan_ok) ==
    LET num == match_number(s, i)
    IN  IF i > Len(s) THEN Fail
        ELSE IF s[i] = "\"" THEN scanstring(s, i + 1, <<>>)
        ELSE IF s[i] = "{" THEN JSONObject(s, i + 1, nan_ok)
        ELSE IF s[i] = "[" THEN JSONArray(s, i + 1, nan_ok)
        ELSE IF StartsWith(s, i, Chars_null) THEN Got(i + 4, "NoneType", Chars_null)
        ELSE IF StartsWith(s, i, Chars_true) THEN Got(i + 4, "bool", Chars_true)
        ELSE IF StartsWith(s, i, Chars_false) THEN Got(i + 5, "bool", Chars_false)
        ELSE IF num # <<>>
             THEN Got(num[2], IF num[2] = num[1] THEN "int" ELSE "float",
                      SubSeq(s, i, num[2] - 1))
        ELSE IF nan_ok /\ StartsWith(s, i, Chars_NaN) THEN Got(i + 3, "float", Chars_NaN)
        ELSE IF nan_ok /\ StartsWith(s, i, Chars_Infinity)
             THEN Got(i + 8, "float", Chars_Infinity)
        ELSE IF nan_ok /\ StartsWith(s, i, Chars_NegInfinity)
             THEN Got(i + 9, "float", Chars_NegInfinity)
        ELSE Fail

\* JSONDecoder.decode: one value between optional whitespace, and nothing else
decode(s, nan_ok) ==
    LET r == scan_once(s, SkipWs(s, 1), nan_ok)
    IN  IF r.ok /\ SkipWs(s, r.end) = Len(s) + 1 THEN r ELSE Fail

\* json.loads(content), line 175: the default decoder, which accepts NaN,
\* Infinity and -Infinity
json_loads(s) == decode(s, TRUE)

-----------------------------------------------------------------------------
(* local_image_to_data_url *)

B64Alphabet ==
    <<"A", "B", "C", "D", "E", "F", "G", "H", "I", "J", "K", "L", "M",
      "N", "O", "P", "Q", "R", "S", "T", "U", "V", "W", "X", "Y", "Z",
      "a", "b", "c", "d", "e", "f", "g", "h", "i", "j", "k", "l", "m",
      "n", "o", "p", "q", "r", "s", "t", "u", "v", "w", "x", "y", "z",
      "0", "1", "2", "3", "4", "5", "6", "7", "8", "9", "+", "/">>

\* the character of a six-bit value
B64Char(v) == B64Alphabet[v + 1]

\* an encoder that leaves the padding out
RECURSIVE b64encode_unpadded(_)
b64encode_unpadded(data) ==
    LET n == Len(data)
        b1 == data[1]
        b2 == IF n >= 2 THEN data[2] ELSE 0
        b3 == IF n >= 3 THEN data[3] ELSE 0
        w == b1 * 65536 + b2 * 256 + b3
        c1 == B64Char(w \div 262144)
        c2 == B64Char((w \div 4096) % 64)
        c3 == B64Char((w \div 64) % 64)
        c4 == B64Char(w % 64)
    IN  IF n = 0 THEN <<>>
        ELSE IF n = 1 THEN <<c1, c2>>
        ELSE IF n = 2 THEN <<c1, c2, c3>>
        ELSE <<c1, c2, c3, c4>> \o b64encode_unpadded(SubSeq(data, 4, n))

\* base64.b64encode(data).decode: three bytes make four characters, a last
\* group of one or two bytes is padded with =
RECURSIVE b64encode(_)
b64encode(data) ==
    LET n == Len(data)
        b1 == data[1]
        b2 == IF n >= 2 THEN data[2] ELSE 0
        b3 == IF n >= 3 THEN data[3] ELSE 0
        w == b1 * 65536 + b2 * 256 + b3
        c1 == B64Char(w \div 262144)
        c2 == B64Char((w \div 4096) % 64)
        c3 == B64Char((w \div 64) % 64)
        c4 == B64Char(w % 64)
    IN  IF n = 0 THEN <<>>
        ELSE IF n = 1 THEN <<c1, c2, "=", "=">>
        ELSE IF n = 2 THEN <<c1, c2, c3, "=">>
        ELSE <<c1, c2, c3, c4>> \o b64encode(SubSeq(data, 4, n))

LowerSeq == <<"a", "b", "c", "d", "e", "f", "g", "h", "i", "j", "k", "l", "m",
              "n", "o", "p", "q", "r", "s", "t", "u", "v", "w", "x", "y", "z">>
UpperSeq == <<"A", "B", "C", "D", "E", "F", "G", "H", "I", "J", "K", "L", "M",
              "N", "O", "P", "Q", "R", "S", "T", "U", "V", "W", "X", "Y", "Z">>

\* str.lower()
lower(s) ==
    [i \in 1..Len(s) |->
        IF s[i] \in Upper
        THEN LowerSeq[CHOOSE k \in 1..26 : UpperSeq[k] = s[i]]
        ELSE s[i]]

\* str.rfind of one character: the last index holding c, 0 if none
rfind(s, c) ==
    LET At == {i \in 1..Len(s) : s[i] = c}
    IN  IF At = {} THEN 0 ELSE Max(At)

\* posixpath.splitext: <<root, ext>>. The extension starts at the last dot of
\* the last path component, unless only dots precede it there.
splitext(path) ==
    LET sep == rfind(path, "/")
        dot == rfind(path, ".")
    IN  IF dot > sep /\ \E i \in (sep + 1)..(dot - 1) : path[i] # "."
        THEN <<SubSeq(path, 1, dot - 1), SubSeq(path, dot, Len(path))>>
        ELSE <<path, <<>>>>

Mime_jpeg == <<"i", "m", "a", "g", "e", "/", "j", "p", "e", "g">>
Mime_png == <<"i", "m", "a", "g", "e", "/", "p", "n", "g">>
Mime_default == <<"a", "p", "p", "l", "i", "c", "a", "t", "i", "o", "n", "/", "o", "c", "t", "e", "t", "-", "s", "t", "r", "e", "a", "m">>

Ext_jpeg == <<".", "j", "p", "e", "g">>
Ext_jpg == <<".", "j", "p", "g">>
Ext_png == <<".", "p", "n", "g">>
Ext_gz == <<".", "g", "z">>

\* mimetypes.types_map and encodings_map, of which the model holds the
\* entries for the extensions of its paths; every other extension is unknown
types_map(ext) ==
    CASE ext = Ext_jpeg -> Mime_jpeg
      [] ext = Ext_jpg -> Mime_jpeg
      [] ext = Ext_png -> Mime_png
      [] OTHER -> None

encodings_map == {Ext_gz}

\* guess_type(image_path)[0], for a path that is no URL: an encoding suffix
\* is taken off first, then the extension is looked up as written and, if
\* unknown, in lower case
guess_type(path) ==
    LET first == splitext(path)
        ext == IF first[2] \in encodings_map
               THEN splitext(first[1])[2]
               ELSE first[2]
    IN  IF types_map(ext) # None THEN types_map(ext) ELSE types_map(lower(ext))

Chars_data == <<"d", "a", "t", "a", ":">>
Chars_base64 == <<";", "b", "a", "s", "e", "6", "4", ",">>

\* local_image_to_data_url(image_path), file_bytes being what image_file.read()
\* returns; the action that calls it models open() failing
local_image_to_data_url(image_path, file_bytes) ==
    LET guessed == guess_type(image_path)
        mime_type == IF guessed = None THEN Mime_default ELSE guessed
        base64_encoded_data == b64encode(file_bytes)
    IN  Chars_data \o mime_type \o Chars_base64 \o base64_encoded_data

-----------------------------------------------------------------------------
(* AzureOpenAIClient.analyze_image *)

deployment_name == "gpt-4o"
default_max_tokens == 2000

TextPart(text) == [type |-> "text", text |-> text]
ImagePart(url) == [type |-> "image_url", image_url |-> [url |-> url]]

\* analyze_image with the two exemplar images in each other's message
analyze_image_swapped(image_url, system_text, user_text, clean_url, dirty_url) ==
    [model |-> deployment_name,
     messages |-> <<
        [role |-> "system", content |-> system_text],
        [role |-> "user",
         content |-> <<TextPart("This is a clean image example:"), ImagePart(dirty_url)>>],
        [role |-> "user",
         content |-> <<TextPart("This is a dirty image example:"), ImagePart(clean_url)>>],
        [role |-> "user",
         content |-> <<TextPart(user_text), ImagePart(image_url)>>]>>,
     max_tokens |-> default_max_tokens]

\* the keyword arguments analyze_image passes to chat.completions.create
analyze_image(image_url, system_text, user_text, clean_url, dirty_url) ==
    [model |-> deployment_name,
     messages |-> <<
        [role |-> "system", content |-> system_text],
        [role |-> "user",
         content |-> <<TextPart("This is a clean image example:"), ImagePart(clean_url)>>],
        [role |-> "user",
         content |-> <<TextPart("This is a dirty image example:"), ImagePart(dirty_url)>>],
        [role |-> "user",
         content |-> <<TextPart(user_text), ImagePart(image_url)>>]>>,
     max_tokens |-> default_max_tokens]

\* main's call, lines 163-169: five positional arguments
call_analyze_image(subject, system_text, user_text, clean, dirty) ==
    analyze_image(subject, system_text, user_text, clean, dirty)

-----------------------------------------------------------------------------
(* Unit runs of extract_code *)

Fence == <<Backtick, Backtick, Backtick>>

Pieces == {Fence, <<"\n">>, <<" ">>, <<"'">>, <<"\"">>, <<"1">>}

RECURSIVE Flatten(_)
Flatten(ps) == IF ps = <<>> THEN <<>> ELSE Head(ps) \o Flatten(Tail(ps))

MainIdle ==
    /\ files = <<>>
    /\ data_url = None
    /\ clean_image_url_example = None
    /\ dirty_image_url_example = None
    /\ request = <<>>
    /\ calls = 0
    /\ response = [has_choices |-> FALSE, choices |-> <<>>]
    /\ content = None
    /\ analysis_result = NoValue
    /\ output = <<>>
    /\ exc = ""

InitExtract ==
    /\ pc = "extract_code"
    /\ \E n \in 0..MaxPieces : \E ps \in [1..n -> Pieces] : arg = Flatten(ps)
    /\ ret = None
    /\ ret2 = None
    /\ MainIdle

CallExtract ==
    /\ pc = "extract_code"
    /\ ret' = extract_code(arg)
    /\ pc' = "extract_code_again"
    /\ UNCHANGED <<arg, ret2>>
    /\ UNCHANGED mainvars

CallExtractAgain ==
    /\ pc = "extract_code_again"
    /\ ret2' = extract_code(ret)
    /\ pc' = "returned"
    /\ UNCHANGED <<arg, ret>>
    /\ UNCHANGED mainvars

NextExtract == CallExtract \/ CallExtractAgain

SpecExtract == InitExtract /\ [][NextExtract]_vars

-----------------------------------------------------------------------------
(* Unit runs of local_image_to_data_url *)

image_path == <<"d", "i", "r", "t", "y", "_", "i", "m", "a", "g", "e", "s", "/", "i", "m", "g", "1", ".", "J", "P", "E", "G">>
clean_path == <<"i", "m", "a", "g", "e", "s", "/", "i", "m", "g", "1", ".", "J", "P", "E", "G">>
dirty_path == <<"i", "m", "a", "g", "e", "s", "/", "i", "m", "g", "1", "3", ".", "J", "P", "E", "G">>

Paths ==
    {image_path, clean_path, dirty_path,
     <<"a", ".", "p", "n", "g">>, <<"a", ".", "j", "p", "g">>, <<"a", ".", "z", "z">>, <<"a">>,
     <<".", "p", "n", "g">>, <<"d", ".", "p", "n", "g", "/", "a">>, <<"a", ".", "p", "n", "g", ".", "g", "z">>, <<"a", ".", "g", "z">>}

ByteValues == {0, 77, 255}

ByteStrings(n) == UNION {[1..k -> ByteValues] : k \in 0..n}

InitEncode ==
    /\ pc = "local_image_to_data_url"
    /\ \E p \in Paths : \E d \in ByteStrings(MaxBytes) \cup {Unreadable} :
          arg = [path |-> p, data |-> d]
    /\ ret = None
    /\ ret2 = None
    /\ MainIdle

\* the call returns
CallEncode ==
    /\ pc = "local_image_to_data_url"
    /\ arg.data # Unreadable
    /\ ret' = local_image_to_data_url(arg.path, arg.data)
    /\ pc' = "returned"
    /\ UNCHANGED <<arg, ret2>>
    /\ UNCHANGED mainvars

\* open() raises
CallEncodeRaises ==
    /\ pc = "local_image_to_data_url"
    /\ arg.data = Unreadable
    /\ exc' = "OSError"
    /\ pc' = "raised"
    /\ UNCHANGED unitvars
    /\ UNCHANGED <<files, data_url, clean_image_url_example, dirty_image_url_example,
                   request, calls, response, content, analysis_result, output>>

NextEncode == CallEncode \/ CallEncodeRaises

SpecEncode == InitEncode /\ [][NextEncode]_vars

-----------------------------------------------------------------------------
(* Unit runs of analyze_image *)

Refs == {<<"A">>, <<"B">>, <<"C">>}
Messages == {"S", "U", "V"}

InitPrompt ==
    /\ pc = "analyze_image"
    /\ \E subject \in Refs, clean \in Refs, dirty \in Refs,
          sys \in Messages, usr \in Messages :
          arg = [subject |-> subject, clean |-> clean, dirty |-> dirty,
                 system_message |-> sys, user_message |-> usr]
    /\ ret = None
    /\ ret2 = None
    /\ MainIdle

CallAnalyze ==
    /\ pc = "analyze_image"
    /\ request' = call_analyze_image(arg.subject, arg.system_message,
                                     arg.user_message, arg.clean, arg.dirty)
    /\ calls' = calls + 1
    /\ pc' = "returned"
    /\ UNCHANGED unitvars
    /\ UNCHANGED <<files, data_url, clean_image_url_example, dirty_image_url_example,
                   response, content, analysis_result, output, exc>>

NextPrompt == CallAnalyze

SpecPrompt == InitPrompt /\ [][NextPrompt]_vars

-----------------------------------------------------------------------------
(* main *)

system_message ==
    "You are an assistant specialized in analyzing cleanliness in industrial engineering images. Use the provided examples to determine whether a scene is clean or not. Provide reasons if the image is not clean."

\* lines 146-160, of which the atom holds the first sentence
user_message ==
    "Analyze the provided image for cleanliness in an industrial engineering setting. (...)"

\* The file system maps the three paths main opens, written as strings, to
\* what the file holds, or to Unreadable.
FileNames == {"dirty_images/img1.JPEG", "images/img1.JPEG", "images/img13.JPEG"}

\* what the three image files can hold
FileContents == {<<255, 216, 255>>, <<77>>}

\* the replies the model can give: a body, bare or inside one of several wrappings
Body_verdict ==
    <<"{", "\"", "i", "s", "_", "c", "l", "e", "a", "n", "\"", ":", " ", "f",
      "a", "l", "s", "e", ",", " ", "\"", "d", "e", "s", "c", "r", "i", "p",
      "t", "i", "o", "n", "\"", ":", " ", "\"", "r", "u", "s", "t", "\"",
      "}">>
Body_single_quotes ==
    <<"{", "'", "i", "s", "_", "c", "l", "e", "a", "n", "'", ":", " ", "f",
      "a", "l", "s", "e", ",", " ", "'", "d", "e", "s", "c", "r", "i", "p",
      "t", "i", "o", "n", "'", ":", " ", "'", "r", "u", "s", "t", "'", "}">>
Body_apostrophe ==
    <<"{", "\"", "i", "s", "_", "c", "l", "e", "a", "n", "\"", ":", " ", "f",
      "a", "l", "s", "e", ",", " ", "\"", "d", "e", "s", "c", "r", "i", "p",
      "t", "i", "o", "n", "\"", ":", " ", "\"", "i", "t", "'", "s", "\"",
      "}">>
Body_partial ==
    <<"{", "\"", "i", "s", "_", "c", "l", "e", "a", "n", "\"", ":", " ", "t",
      "r", "u", "e", "}">>
Body_list ==
    <<"[", "1", "]">>
Body_not_json ==
    <<"n", "o", "t", " ", "j", "s", "o", "n", " ", "a", "t", " ", "a", "l",
      "l">>

Bodies ==
    {Body_verdict, Body_single_quotes, Body_apostrophe, Body_partial,
     Body_list, Body_not_json, Chars_NaN, <<>>}

Chars_json == <<"j", "s", "o", "n">>

Prefixes ==
    {<<>>,
     Fence \o Chars_json \o <<"\n">>,
     Fence \o <<"\n">>,
     Fence,
     Fence \o Chars_json \o <<" ">>,
     <<"O", "K", ":", "\n">> \o Fence \o Chars_json \o <<"\n">>}

Suffixes ==
    {<<>>,
     <<"\n">> \o Fence,
     Fence,
     Fence \o <<"\n">> \o Fence \o <<"\n">> \o Body_list \o <<"\n">> \o Fence}

Replies == {p \o b \o x : p \in Prefixes, b \in Bodies, x \in Suffixes}

\* A response: whether it has a choices attribute, and the message content of
\* each candidate (None for a candidate without text). Only the first
\* candidate's content varies.
NoResponse == [has_choices |-> FALSE, choices |-> <<>>]

Responses ==
    {NoResponse, [has_choices |-> TRUE, choices |-> <<>>]}
    \cup {[has_choices |-> TRUE,
           choices |-> <<first>> \o [i \in 1..(n - 1) |-> Body_verdict]] :
            first \in Replies \cup {None}, n \in 1..MaxChoices}

Init ==
    /\ pc = "main"
    /\ files \in [FileNames -> FileContents \cup {Unreadable}]
    /\ arg = None
    /\ ret = None
    /\ ret2 = None
    /\ data_url = None
    /\ clean_image_url_example = None
    /\ dirty_image_url_example = None
    /\ request = <<>>
    /\ calls = 0
    /\ response = NoResponse
    /\ content = None
    /\ analysis_result = NoValue
    /\ output = <<>>
    /\ exc = ""

\* an exception nothing catches: it ends the run
Raise(e) ==
    /\ exc' = e
    /\ pc' = "crashed"

\* lines 124-138: the configuration is read and the client object built
Configure ==
    /\ pc = "main"
    /\ pc' = "encode_subject"
    /\ UNCHANGED unitvars
    /\ UNCHANGED mainvars

\* line 141
EncodeSubject ==
    /\ pc = "encode_subject"
    /\ IF files["dirty_images/img1.JPEG"] = Unreadable
       THEN Raise("OSError") /\ UNCHANGED data_url
       ELSE /\ data_url' = local_image_to_data_url(image_path, files["dirty_images/img1.JPEG"])
            /\ pc' = "encode_clean"
            /\ UNCHANGED exc
    /\ UNCHANGED unitvars
    /\ UNCHANGED <<files, clean_image_url_example, dirty_image_url_example,
                   request, calls, response, content, analysis_result, output>>

\* line 142
EncodeClean ==
    /\ pc = "encode_clean"
    /\ IF files["images/img1.JPEG"] = Unreadable
       THEN Raise("OSError") /\ UNCHANGED clean_image_url_example
       ELSE /\ clean_image_url_example' =
                   local_image_to_data_url(clean_path, files["images/img1.JPEG"])
            /\ pc' = "encode_dirty"
            /\ UNCHANGED exc
    /\ UNCHANGED unitvars
    /\ UNCHANGED <<files, data_url, dirty_image_url_example,
                   request, calls, response, content, analysis_result, output>>

\* line 143 inside a try block whose handler goes on without the image
EncodeDirty_swallowed ==
    /\ pc = "encode_dirty"
    /\ IF files["images/img13.JPEG"] = Unreadable
       THEN UNCHANGED dirty_image_url_example
       ELSE dirty_image_url_example' =
               local_image_to_data_url(dirty_path, files["images/img13.JPEG"])
    /\ pc' = "analyze_image"
    /\ UNCHANGED unitvars
    /\ UNCHANGED <<files, data_url, clean_image_url_example,
                   request, calls, response, content, analysis_result, output, exc>>

\* line 143
EncodeDirty ==
    /\ pc = "encode_dirty"
    /\ IF files["images/img13.JPEG"] = Unreadable
       THEN Raise("OSError") /\ UNCHANGED dirty_image_url_example
       ELSE /\ dirty_image_url_example' =
                   local_image_to_data_url(dirty_path, files["images/img13.JPEG"])
            /\ pc' = "analyze_image"
            /\ UNCHANGED exc
    /\ UNCHANGED unitvars
    /\ UNCHANGED <<files, data_url, clean_image_url_example,
                   request, calls, response, content, analysis_result, output>>

\* lines 163-169 and 60-100: the request is sent and a response comes back
AnalyzeImage ==
    /\ pc = "analyze_image"
    /\ request' = call_analyze_image(data_url, system_message, user_message,
                                     clean_image_url_example, dirty_image_url_example)
    /\ calls' = calls + 1
    /\ response' \in Responses
    /\ pc' = "check_choices"
    /\ UNCHANGED unitvars
    /\ UNCHANGED <<files, data_url, clean_image_url_example, dirty_image_url_example,
                   content, analysis_result, output, exc>>

\* lines 163-169 and 60-100: the request is sent and the client raises
AnalyzeImageRaises ==
    /\ pc = "analyze_image"
    /\ request' = call_analyze_image(data_url, system_message, user_message,
                                     clean_image_url_example, dirty_image_url_example)
    /\ calls' = calls + 1
    /\ Raise("APIError")
    /\ UNCHANGED unitvars
    /\ UNCHANGED <<files, data_url, clean_image_url_example, dirty_image_url_example,
                   response, content, analysis_result, output>>

\* line 172; there is no else branch
CheckChoices ==
    /\ pc = "check_choices"
    /\ pc' = IF response.has_choices /\ Len(response.choices) > 0
             THEN "extract_code" ELSE "exit"
    /\ UNCHANGED unitvars
    /\ UNCHANGED mainvars

\* line 174; re.search raises TypeError on None
Extract ==
    /\ pc = "extract_code"
    /\ IF response.choices[1] = None
       THEN Raise("TypeError") /\ UNCHANGED content
       ELSE /\ content' = extract_code(response.choices[1])
            /\ pc' = "json_loads"
            /\ UNCHANGED exc
    /\ UNCHANGED unitvars
    /\ UNCHANGED <<files, data_url, clean_image_url_example, dirty_image_url_example,
                   request, calls, response, analysis_result, output>>

\* line 175, and line 180 when json.loads raises JSONDecodeError
Parse ==
    /\ pc = "json_loads"
    /\ IF json_loads(content).ok
       THEN /\ analysis_result' = json_loads(content).val
            /\ pc' = "print"
       ELSE /\ pc' = "except"
            /\ UNCHANGED analysis_result
    /\ UNCHANGED unitvars
    /\ UNCHANGED <<files, data_url, clean_image_url_example, dirty_image_url_example,
                   request, calls, response, content, output, exc>>

\* what one print call writes: its first argument and its second, a text or
\* (through json.dumps) a parsed value
Printed(head, text, value) == [head |-> head, text |-> text, value |-> value]

\* lines 176-179
PrintResponse ==
    /\ pc = "print"
    /\ output' = Append(output, Printed("API Response:", image_path, analysis_result))
    /\ pc' = "exit"
    /\ UNCHANGED unitvars
    /\ UNCHANGED <<files, data_url, clean_image_url_example, dirty_image_url_example,
                   request, calls, response, content, analysis_result, exc>>

\* lines 181-182
PrintError ==
    /\ pc = "except"
    /\ output' = output \o <<Printed("JSON parsing error:", <<>>, NoValue),
                             Printed("Original content:", content, NoValue)>>
    /\ pc' = "exit"
    /\ UNCHANGED unitvars
    /\ UNCHANGED <<files, data_url, clean_image_url_example, dirty_image_url_example,
                   request, calls, response, content, analysis_result, exc>>

Next ==
    \/ Configure
    \/ EncodeSubject
    \/ EncodeClean
    \/ EncodeDirty
    \/ AnalyzeImage
    \/ AnalyzeImageRaises
    \/ CheckChoices
    \/ Extract
    \/ Parse
    \/ PrintResponse
    \/ PrintError

Spec == Init /\ [][Next]_vars

-----------------------------------------------------------------------------
(* Vocabulary of the properties *)

Contains(s, c) == \E i \in 1..Len(s) : s[i] = c

\* the positions at which a triple-backtick marker starts
FenceStarts(s) == {i \in 1..Len(s) : IsFenceAt(s, i)}

RECURSIVE SkipAlnum(_, _)
SkipAlnum(s, i) == IF i <= Len(s) /\ s[i] \in Alnum THEN SkipAlnum(s, i + 1) ELSE i

\* A fenced block as the specification describes it, looked for from position
\* from on: an opening marker, an optional language name, a later closing
\* marker. <<start of the interior, end of the interior, position after the
\* closing marker>>, or <<>> when there is none.
BlockFrom(s, from) ==
    LET Opens == {i \in FenceStarts(s) : i >= from}
        open == Min(Opens)
        inner == SkipAlnum(s, open + 3)
        Closes == {i \in FenceStarts(s) : i >= inner}
    IN  IF Opens = {} THEN <<>>
        ELSE IF Closes = {} THEN <<>>
        ELSE <<inner, Min(Closes) - 1, Min(Closes) + 3>>

HasBlock(s) == BlockFrom(s, 1) # <<>>
HasTwoBlocks(s) == HasBlock(s) /\ BlockFrom(s, BlockFrom(s, 1)[3]) # <<>>
FirstInterior(s) == SubSeq(s, BlockFrom(s, 1)[1], BlockFrom(s, 1)[2])

\* t is s without its leading and trailing whitespace
IsTrimOf(t, s) ==
    /\ t = <<>> \/ (t[1] \notin Space /\ t[Len(t)] \notin Space)
    /\ \E a \in 0..Len(s) :
          /\ a + Len(t) <= Len(s)
          /\ SubSeq(s, a + 1, a + Len(t)) = t
          /\ \A i \in (1..a) \cup ((a + Len(t) + 1)..Len(s)) : s[i] \in Space

\* t is s, trimmed, with every single quote turned into a double quote
IsNormalizedTrimOf(t, s) ==
    \E u \in {SubSeq(s, a, b) : a \in 1..(Len(s) + 1), b \in 0..Len(s)} :
        /\ IsTrimOf(u, s)
        /\ Len(t) = Len(u)
        /\ \A i \in 1..Len(u) : t[i] = IF u[i] = "'" THEN "\"" ELSE u[i]

\* valid JSON text as RFC 8259 has it: NaN, Infinity and -Infinity are no values
IsStrictJSON(s) == decode(s, FALSE).ok

\* the value of key k in a parsed dict (the last pair wins), NoValue if absent
RECURSIVE Lookup(_, _)
Lookup(items, k) ==
    IF items = <<>> THEN NoValue
    ELSE IF items[Len(items)][1] = k THEN items[Len(items)][2]
    ELSE Lookup(SubSeq(items, 1, Len(items) - 1), k)

Key_is_clean == <<"i", "s", "_", "c", "l", "e", "a", "n">>
Key_description == <<"d", "e", "s", "c", "r", "i", "p", "t", "i", "o", "n">>

\* a parsed value holding both fields of a verdict
IsVerdict(value) ==
    /\ value.t = "dict"
    /\ Lookup(value.v, Key_is_clean).t = "bool"
    /\ Lookup(value.v, Key_description).t = "str"

SuccessReported == \E i \in 1..Len(output) : output[i].head = "API Response:"
FailureReported == \E i \in 1..Len(output) : output[i].head = "JSON parsing error:"
Terminated == pc \in {"exit", "crashed"}
ExtractReturned == pc \in {"extract_code_again", "returned"}

-----------------------------------------------------------------------------
(* Properties *)

\* C1: for every text that holds a fenced block, extract_code returns the
\* block's interior, trimmed and with single quotes turned into double
\* quotes, also when the content starts on the line of the opening marker;
\* for every other text it returns the whole text, trimmed and normalised.
C1_FencedBlockExtracted ==
    ExtractReturned =>
        IF HasBlock(arg)
        THEN IsNormalizedTrimOf(ret, FirstInterior(arg))
        ELSE IsNormalizedTrimOf(ret, arg)

\* C2: for every text that holds two or more fenced blocks, the result of
\* extract_code is the first block's content, trimmed and normalised,
\* whatever the form of the first block.
C2_OnlyFirstBlock ==
    (ExtractReturned /\ HasTwoBlocks(arg)) =>
        IsNormalizedTrimOf(ret, FirstInterior(arg))

\* C3 as stated: for every valid strict JSON text without a code fence,
\* extract_code returns the text trimmed, no character of it changed.
C3_StrictJsonUnchanged ==
    (ExtractReturned /\ IsStrictJSON(arg) /\ FenceStarts(arg) = {}) =>
        IsTrimOf(ret, arg)

\* C3 amended: for every valid strict JSON text without a code fence and
\* without a single-quote character, extract_code returns the text trimmed.
C3_StrictJsonNoApostropheUnchanged ==
    (ExtractReturned /\ IsStrictJSON(arg) /\ FenceStarts(arg) = {}
        /\ ~Contains(arg, "'")) =>
        IsTrimOf(ret, arg)

\* a JSON string between whitespace has been extracted
C3_Witness ==
    /\ ExtractReturned
    /\ IsStrictJSON(arg)
    /\ FenceStarts(arg) = {}
    /\ ~Contains(arg, "'")
    /\ Contains(arg, "\"")
    /\ Len(ret) + 2 <= Len(arg)

\* C4: a success report is printed only for a parsed value that holds both the
\* is_clean boolean and the description string; every other run that
\* extracted a text reports the failure.
C4_NoPartialVerdict ==
    (pc = "exit" /\ content # None) =>
        /\ SuccessReported => IsVerdict(analysis_result)
        /\ ~SuccessReported => FailureReported

\* C5: every run in which the remote call returned reports exactly one of
\* the two outcomes, success or parse failure, before it ends.
C5_ExactlyOneOutcome ==
    (Terminated /\ calls = 1 /\ exc # "APIError") =>
        (SuccessReported /\ ~FailureReported) \/ (FailureReported /\ ~SuccessReported)

\* C6: whenever the extracted text is not valid strict JSON, the run prints
\* the parse error and then exactly that text, prints no verdict, makes no
\* further remote call and ends without an exception.
C6_InvalidJsonReported ==
    (Terminated /\ content # None /\ ~IsStrictJSON(content)) =>
        /\ pc = "exit"
        /\ exc = ""
        /\ calls = 1
        /\ Len(output) = 2
        /\ output[1].head = "JSON parsing error:"
        /\ output[2].head = "Original content:"
        /\ output[2].text = content

\* C7: an unreadable image file ends the run with the file error before any
\* remote call and with nothing printed; a failed remote call ends it with
\* nothing extracted and nothing printed; a parse-error report is the only
\* trace of a caught exception, and it is of a JSON parse failure.
C7_OnlyParseErrorCaught ==
    /\ (\E f \in DOMAIN files : files[f] = Unreadable) =>
          /\ calls = 0
          /\ output = <<>>
          /\ pc \in {"main", "encode_subject", "encode_clean", "encode_dirty", "crashed"}
          /\ pc = "crashed" => exc = "OSError"
    /\ exc = "APIError" =>
          /\ pc = "crashed"
          /\ content = None
          /\ analysis_result = NoValue
          /\ output = <<>>
    /\ exc # "" => pc = "crashed" /\ ~FailureReported /\ ~SuccessReported
    /\ FailureReported => content # None /\ ~json_loads(content).ok

\* the third file, the dirty exemplar, could not be read after the other two were
C7_Witness ==
    /\ pc = "crashed"
    /\ exc = "OSError"
    /\ data_url # None
    /\ clean_image_url_example # None
    /\ files["images/img13.JPEG"] = Unreadable

\* C8: the request holds exactly four messages: the system message with the
\* system instructions, then the clean-example text and the clean exemplar
\* image, then the dirty-example text and the dirty exemplar image, then the
\* user instructions and the subject image.
C8_MessageOrder ==
    pc = "returned" =>
        LET m == request.messages IN
        /\ Len(m) = 4
        /\ m[1] = [role |-> "system", content |-> arg.system_message]
        /\ m[2].role = "user" /\ Len(m[2].content) = 2
        /\ m[2].content[1] = [type |-> "text", text |-> "This is a clean image example:"]
        /\ m[2].content[2] = [type |-> "image_url", image_url |-> [url |-> arg.clean]]
        /\ m[3].role = "user" /\ Len(m[3].content) = 2
        /\ m[3].content[1] = [type |-> "text", text |-> "This is a dirty image example:"]
        /\ m[3].content[2] = [type |-> "image_url", image_url |-> [url |-> arg.dirty]]
        /\ m[4].role = "user" /\ Len(m[4].content) = 2
        /\ m[4].content[1] = [type |-> "text", text |-> arg.user_message]
        /\ m[4].content[2] = [type |-> "image_url", image_url |-> [url |-> arg.subject]]

\* a request was built from five arguments no two of which are equal
C8_Witness ==
    /\ pc = "returned"
    /\ Cardinality({arg.subject, arg.clean, arg.dirty}) = 3
    /\ arg.system_message # arg.user_message

\* standard base64 decoding: four characters make three bytes, = pads
B64Value(c) == IF c = "=" THEN 0 ELSE (CHOOSE k \in 1..64 : B64Alphabet[k] = c) - 1

RECURSIVE b64decode(_)
b64decode(t) ==
    IF Len(t) < 4 THEN <<>>
    ELSE LET w == B64Value(t[1]) * 262144 + B64Value(t[2]) * 4096
                  + B64Value(t[3]) * 64 + B64Value(t[4])
             three == <<w \div 65536, (w \div 256) % 256, w % 256>>
             n == IF t[3] = "=" THEN 1 ELSE IF t[4] = "=" THEN 2 ELSE 3
         IN  SubSeq(three, 1, n) \o b64decode(SubSeq(t, 5, Len(t)))

IsB64Text(t) ==
    /\ Len(t) % 4 = 0
    /\ \A i \in 1..Len(t) :
          \/ \E k \in 1..64 : B64Alphabet[k] = t[i]
          \/ t[i] = "=" /\ i >= Len(t) - 1 /\ (i = Len(t) \/ t[Len(t)] = "=")

\* the paths of the model from whose extension Python guesses no type
PathsOfNoType ==
    {<<"a", ".", "z", "z">>, <<"a">>, <<".", "p", "n", "g">>,
     <<"d", ".", "p", "n", "g", "/", "a">>, <<"a", ".", "g", "z">>}

\* C9: for every readable file the call returns data:<mime>;base64,<payload>,
\* the payload decoding to the file's bytes; <mime> is
\* application/octet-stream when no type can be guessed from the extension.
C9_DataUrlRoundTrip ==
    /\ (pc = "raised") => arg.data = Unreadable
    /\ (pc = "returned") =>
        LET semi == Min({i \in 1..Len(ret) : ret[i] = ";"} \cup {Len(ret) + 1})
            mime == SubSeq(ret, 6, semi - 1)
            payload == SubSeq(ret, semi + 8, Len(ret))
        IN  /\ SubSeq(ret, 1, 5) = <<"d", "a", "t", "a", ":">>
            /\ SubSeq(ret, semi, semi + 7) = <<";", "b", "a", "s", "e", "6", "4", ",">>
            /\ mime # <<>>
            /\ IsB64Text(payload)
            /\ b64decode(payload) = arg.data
            /\ arg.path \in PathsOfNoType => mime = Mime_default

\* a file of four bytes without a known extension has been encoded
C9_Witness ==
    /\ pc = "returned"
    /\ arg.path \in PathsOfNoType
    /\ Len(arg.data) = 4
    /\ arg.data[4] = 255

\* C10: extract_code applied to its own result returns that result; the
\* result holds no single quote, neither starts nor ends with whitespace,
\* and holds no fenced block the pattern matches.
C10_Idempotent ==
    pc = "returned" =>
        /\ ret2 = ret
        /\ ~Contains(ret, "'")
        /\ ret = <<>> \/ (ret[1] \notin Space /\ ret[Len(ret)] \notin Space)
        /\ \A i \in 1..Len(ret) : pattern_match(ret, i) = <<>>

\* a block's interior was taken out of a longer text and applied to again
C10_Witness ==
    /\ pc = "returned"
    /\ re_search(arg) # <<>>
    /\ ret # <<>>
    /\ Len(ret) + 8 <= Len(arg)
    /\ ret2 = ret

====
